---------------------------- MODULE Spec2Model ----------------------------
(***************************************************************************)
(* Model of the training VM: the instruction schema (uvm/spec.py), the     *)
(* assembler's encode_words, and the interpreter (uvm/interpreter.py).     *)
(*                                                                         *)
(* Python integers are unbounded, and the program uses 112-bit instruction *)
(* words and 64-bit memory words.  An integer is therefore represented in  *)
(* two's complement with an infinite sign extension:                       *)
(*    [neg |-> FALSE, bits |-> S]   is the number whose set bits are S,    *)
(*    [neg |-> TRUE,  bits |-> S]   is the number whose CLEAR bits are S,  *)
(*                                  that is  -(n + 1)  for n with bits S.  *)
(* Every integer has exactly one such representation.                      *)
(***************************************************************************)
EXTENDS Integers, Sequences, FiniteSets, TLC

VARIABLES
    \* InstructionDefinition.encode / extract_fields / decode_word on one input
    enc_definition, \* the InstructionDefinition encode is called on
    enc_values,     \* the mapping of field names to integers given to encode
    enc_result,     \* what encode returned or raised
    ext_result,     \* what extract_fields returned for the encoded word
    dec_result,     \* what decode_word returned for the encoded word
    \* encode_words on a sequence of IR instructions
    ir_list,        \* the IR sequence
    asm_result,     \* what encode_words returned or raised
    \* load_program and Interpreter
    program,        \* Interpreter.program, the decoded instructions
    memory,         \* Memory._cells
    pc,             \* Interpreter.pc
    steps,          \* Interpreter.steps
    max_steps,      \* the budget given to run
    phase,          \* "load", "running", "returned", "load_error", "run_error"
    result,         \* the ExecutionResult run returned
    error           \* the error that ended loading or running

vars == <<enc_definition, enc_values, enc_result, ext_result, dec_result,
          ir_list, asm_result,
          program, memory, pc, steps, max_steps, phase, result, error>>

encVars == <<enc_definition, enc_values, enc_result, ext_result, dec_result>>
asmVars == <<ir_list, asm_result>>
vmVars == <<program, memory, pc, steps, max_steps, phase, result, error>>

(***************************************************************************)
(* Bounds of the model.                                                    *)
(***************************************************************************)
MaxSmall == 1     \* field values 0..MaxSmall are tried besides the edge values
MaxIR == 3        \* longest IR sequence handed to encode_words
MaxProgram == 3   \* longest program loaded into the interpreter

(***************************************************************************)
(* Python int arithmetic.                                                  *)
(***************************************************************************)
SetMax(S) == CHOOSE m \in S : \A k \in S : k <= m

\* An integer literal n (|n| < 2^30) as a Python int.
IntOf(n) ==
    IF n >= 0
    THEN [neg |-> FALSE, bits |-> {i \in 0..30 : (n \div (2^i)) % 2 = 1}]
    ELSE [neg |-> TRUE,  bits |-> {i \in 0..30 : ((-n - 1) \div (2^i)) % 2 = 1}]

\* x < 0
IsNegative(x) == x.neg

\* ~x
PyInvert(x) == [neg |-> ~x.neg, bits |-> x.bits]

\* x & y
PyAnd(x, y) ==
    CASE ~x.neg /\ ~y.neg -> [neg |-> FALSE, bits |-> x.bits \cap y.bits]
      [] ~x.neg /\  y.neg -> [neg |-> FALSE, bits |-> x.bits \ y.bits]
      []  x.neg /\ ~y.neg -> [neg |-> FALSE, bits |-> y.bits \ x.bits]
      []  x.neg /\  y.neg -> [neg |-> TRUE,  bits |-> x.bits \cup y.bits]

\* x | y
PyOr(x, y) ==
    CASE ~x.neg /\ ~y.neg -> [neg |-> FALSE, bits |-> x.bits \cup y.bits]
      [] ~x.neg /\  y.neg -> [neg |-> TRUE,  bits |-> y.bits \ x.bits]
      []  x.neg /\ ~y.neg -> [neg |-> TRUE,  bits |-> x.bits \ y.bits]
      []  x.neg /\  y.neg -> [neg |-> TRUE,  bits |-> x.bits \cap y.bits]

\* x << s  (s >= 0)
PyShl(x, s) ==
    IF x.neg
    THEN [neg |-> TRUE,  bits |-> {i + s : i \in x.bits} \cup (0..(s - 1))]
    ELSE [neg |-> FALSE, bits |-> {i + s : i \in x.bits}]

\* x >> s  (s >= 0, arithmetic shift)
PyShr(x, s) == [neg |-> x.neg, bits |-> {i - s : i \in {j \in x.bits : j >= s}}]

\* Ripple-carry sum of the bit sets X and Y over the positions i..hi, carry c.
RECURSIVE AddBits(_, _, _, _, _)
AddBits(X, Y, i, hi, c) ==
    IF i > hi THEN {}
    ELSE LET s == (IF i \in X THEN 1 ELSE 0) + (IF i \in Y THEN 1 ELSE 0) + c
         IN  (IF s % 2 = 1 THEN {i} ELSE {}) \cup AddBits(X, Y, i + 1, hi, s \div 2)

\* x + y, computed in two's complement wide enough to hold the sum
PyAdd(x, y) ==
    LET hi == SetMax(x.bits \cup y.bits \cup {0}) + 2
        ext(v) == IF v.neg THEN (0..hi) \ v.bits ELSE v.bits
        sum == AddBits(ext(x), ext(y), 0, hi, 0)
    IN  IF hi \in sum
        THEN [neg |-> TRUE,  bits |-> (0..hi) \ sum]
        ELSE [neg |-> FALSE, bits |-> sum]

\* x < y
PyLess(x, y) == IsNegative(PyAdd(x, PyAdd(PyInvert(y), IntOf(1))))

\* str.upper() on the names the model uses
Upper(s) ==
    CASE s = "b" -> "B"
      [] s = "c" -> "C"
      [] s = "d" -> "D"
      [] s = "load_const" -> "LOAD_CONST"
      [] s = "Read_Mem" -> "READ_MEM"
      [] s = "jump" -> "JUMP"
      [] OTHER -> s

(***************************************************************************)
(* uvm/spec.py: constants and the instruction schema.                      *)
(***************************************************************************)
OPCODE_BITS == 5
WORD_SIZE == 64
WORD_MASK == PyAdd(PyShl(IntOf(1), WORD_SIZE), IntOf(-1))

FieldDefinition(name, start_bit, end_bit) ==
    [name |-> name, start_bit |-> start_bit, end_bit |-> end_bit]

width(field) == field.end_bit - field.start_bit + 1

mask_NoDecrement(field) == PyShl(IntOf(1), width(field))

mask(field) == PyAdd(PyShl(IntOf(1), width(field)), IntOf(-1))

FIELD_B_SHORT == FieldDefinition("B", 5, 21)
FIELD_C_LONG == FieldDefinition("C", 22, 50)
FIELD_B_LONG_OverOpcode == FieldDefinition("B", 3, 31)
FIELD_B_LONG == FieldDefinition("B", 5, 33)
FIELD_C_SHORT_Overlap == FieldDefinition("C", 34, 49)
FIELD_C_SHORT == FieldDefinition("C", 34, 48)
FIELD_D_LONG == FieldDefinition("D", 49, 77)
FIELD_C_MEDIUM == FieldDefinition("C", 34, 62)

InstructionDefinition(mnemonic, opcode, fields) ==
    [mnemonic |-> mnemonic, opcode |-> IntOf(opcode), fields |-> fields]

\* the mnemonics in the dictionary's insertion order
Mnemonics == <<"LOAD_CONST", "READ_MEM", "WRITE_MEM", "NOT_MEM">>

INSTRUCTION_SET ==
    [m \in {Mnemonics[i] : i \in 1..Len(Mnemonics)} |->
        CASE m = "LOAD_CONST" ->
               InstructionDefinition("LOAD_CONST", 17, <<FIELD_B_SHORT, FIELD_C_LONG>>)
          [] m = "READ_MEM" ->
               InstructionDefinition("READ_MEM", 16,
                                     <<FIELD_B_LONG, FIELD_C_SHORT, FIELD_D_LONG>>)
          [] m = "WRITE_MEM" ->
               InstructionDefinition("WRITE_MEM", 23, <<FIELD_B_LONG, FIELD_C_MEDIUM>>)
          [] m = "NOT_MEM" ->
               InstructionDefinition("NOT_MEM", 24,
                                     <<FIELD_B_LONG, FIELD_C_SHORT, FIELD_D_LONG>>)]

\* INSTRUCTION_BY_OPCODE.get(opcode): the dict comprehension keeps, for each
\* opcode, the last definition of INSTRUCTION_SET that carries it.
INSTRUCTION_BY_OPCODE(opcode) ==
    LET hits == {i \in 1..Len(Mnemonics) : INSTRUCTION_SET[Mnemonics[i]].opcode = opcode}
    IN  IF hits = {}
        THEN [found |-> FALSE]
        ELSE [found |-> TRUE, definition |-> INSTRUCTION_SET[Mnemonics[SetMax(hits)]]]

FieldNames(definition) == {definition.fields[i].name : i \in 1..Len(definition.fields)}

\* InstructionDefinition.validate_fields: the error it raises, if any.
\* An undeclared name is reported one at a time, the first in the mapping's
\* order; the model records the set of candidates.
validate_fields(definition, values) ==
    LET required == FieldNames(definition)
        missing == required \ {Upper(name) : name \in DOMAIN values}
        extra == {name \in DOMAIN values : Upper(name) \notin required}
    IN  IF missing # {}
        THEN [kind |-> "error", error |-> "SchemaError",
              mnemonic |-> definition.mnemonic, fields |-> missing]
        ELSE IF extra # {}
        THEN [kind |-> "error", error |-> "SchemaError",
              mnemonic |-> definition.mnemonic, fields |-> extra]
        ELSE [kind |-> "ok"]

\* The loop of InstructionDefinition.encode from field i on.
RECURSIVE EncodeFields(_, _, _, _)
EncodeFields(definition, values, i, encoded) ==
    IF i > Len(definition.fields)
    THEN [kind |-> "ok", word |-> encoded]
    ELSE LET field == definition.fields[i]
             key == Upper(field.name)
         IN  IF key \notin DOMAIN values
             THEN [kind |-> "error", error |-> "KeyError",
                   mnemonic |-> definition.mnemonic, fields |-> {key}]
             ELSE LET raw_value == values[key]
                  IN  IF IsNegative(raw_value) \/ PyLess(mask(field), raw_value)
                      THEN [kind |-> "error", error |-> "RangeError",
                            mnemonic |-> definition.mnemonic, fields |-> {field.name},
                            value |-> raw_value, width |-> width(field)]
                      ELSE EncodeFields(definition, values, i + 1,
                                        PyOr(encoded, PyShl(raw_value, field.start_bit)))

\* InstructionDefinition.encode
encode(definition, values) ==
    LET checked == validate_fields(definition, values)
    IN  IF checked.kind = "error"
        THEN checked
        ELSE EncodeFields(definition, values, 1,
                          PyAnd(definition.opcode,
                                PyAdd(PyShl(IntOf(1), OPCODE_BITS), IntOf(-1))))

\* InstructionDefinition.extract_fields
extract_fields(definition, encoded) ==
    LET at(name) == CHOOSE i \in 1..Len(definition.fields) :
                        /\ definition.fields[i].name = name
                        /\ \A j \in 1..Len(definition.fields) :
                               definition.fields[j].name = name => j <= i
    IN  [name \in FieldNames(definition) |->
            PyAnd(PyShr(encoded, definition.fields[at(name)].start_bit),
                  mask(definition.fields[at(name)]))]

\* decode_word
decode_word(word) ==
    LET opcode == PyAnd(word, PyAdd(PyShl(IntOf(1), OPCODE_BITS), IntOf(-1)))
        looked == INSTRUCTION_BY_OPCODE(opcode)
    IN  IF ~looked.found
        THEN [kind |-> "error", error |-> "UnknownOpcodeError", opcode |-> opcode]
        ELSE [kind |-> "ok",
              instruction |-> [definition |-> looked.definition,
                               fields |-> extract_fields(looked.definition, word),
                               raw_value |-> word]]

\* The loop of encode_words from instruction i on, acc the words so far.
RECURSIVE EncodeWordsFrom_SkipFailed(_, _, _)
EncodeWordsFrom_SkipFailed(irs, i, acc) ==
    IF i > Len(irs)
    THEN [kind |-> "ok", words |-> acc]
    ELSE IF Upper(irs[i].mnemonic) \notin DOMAIN INSTRUCTION_SET
    THEN [kind |-> "error", error |-> "UnknownMnemonicError",
          mnemonic |-> irs[i].mnemonic]
    ELSE LET one == encode(INSTRUCTION_SET[Upper(irs[i].mnemonic)], irs[i].fields)
         IN  IF one.kind = "error"
             THEN EncodeWordsFrom_SkipFailed(irs, i + 1, acc)
             ELSE EncodeWordsFrom_SkipFailed(irs, i + 1, Append(acc, one.word))

RECURSIVE EncodeWordsFrom(_, _, _)
EncodeWordsFrom(irs, i, acc) ==
    IF i > Len(irs)
    THEN [kind |-> "ok", words |-> acc]
    ELSE IF Upper(irs[i].mnemonic) \notin DOMAIN INSTRUCTION_SET
    THEN [kind |-> "error", error |-> "UnknownMnemonicError",
          mnemonic |-> irs[i].mnemonic]
    ELSE LET one == encode(INSTRUCTION_SET[Upper(irs[i].mnemonic)], irs[i].fields)
         IN  IF one.kind = "error"
             THEN one
             ELSE EncodeWordsFrom(irs, i + 1, Append(acc, one.word))

\* encode_words
encode_words(irs) == EncodeWordsFrom(irs, 1, <<>>)

(***************************************************************************)
(* uvm/interpreter.py: Memory and the instruction handlers.  A call either *)
(* returns ([ok |-> TRUE, ...]) or raises ([ok |-> FALSE, error |-> ...]). *)
(***************************************************************************)
\* Memory.read
MemRead(cells, address) ==
    IF IsNegative(address)
    THEN [ok |-> FALSE, error |-> "InvalidAddressError"]
    ELSE [ok |-> TRUE,
          value |-> IF address \in DOMAIN cells THEN cells[address] ELSE IntOf(0)]

\* Memory.write
MemWrite(cells, address, value) ==
    IF IsNegative(address)
    THEN [ok |-> FALSE, error |-> "InvalidAddressError"]
    ELSE [ok |-> TRUE,
          cells |-> [a \in DOMAIN cells \cup {address} |->
                        IF a = address THEN PyAnd(value, WORD_MASK) ELSE cells[a]]]

\* Interpreter._op_load_const
op_load_const(cells, fields) == MemWrite(cells, fields["C"], fields["B"])

op_read_mem_Direct(cells, fields) ==
    LET value == MemRead(cells, PyAdd(fields["B"], fields["C"]))
    IN  IF ~value.ok THEN value
        ELSE MemWrite(cells, fields["D"], value.value)

\* Interpreter._op_read_mem
op_read_mem(cells, fields) ==
    LET base == MemRead(cells, fields["B"])
    IN  IF ~base.ok THEN base
        ELSE LET value == MemRead(cells, PyAdd(base.value, fields["C"]))
             IN  IF ~value.ok THEN value
                 ELSE MemWrite(cells, fields["D"], value.value)

\* Interpreter._op_write_mem
op_write_mem(cells, fields) ==
    LET value == MemRead(cells, fields["B"])
    IN  IF ~value.ok THEN value
        ELSE MemWrite(cells, fields["C"], value.value)

op_not_mem_NoOffset(cells, fields) ==
    LET base == MemRead(cells, fields["B"])
    IN  IF ~base.ok THEN base
        ELSE LET value == MemRead(cells, base.value)
             IN  IF ~value.ok THEN value
                 ELSE MemWrite(cells, fields["D"],
                               PyAnd(PyInvert(value.value), WORD_MASK))

\* Interpreter._op_not_mem
op_not_mem(cells, fields) ==
    LET base == MemRead(cells, fields["B"])
    IN  IF ~base.ok THEN base
        ELSE LET value == MemRead(cells, PyAdd(base.value, fields["C"]))
             IN  IF ~value.ok THEN value
                 ELSE MemWrite(cells, fields["D"],
                               PyAnd(PyInvert(value.value), WORD_MASK))

execute_NoNotMem(cells, instruction) ==
    LET name == instruction.definition.mnemonic
    IN  CASE name = "LOAD_CONST" -> op_load_const(cells, instruction.fields)
          [] name = "READ_MEM" -> op_read_mem(cells, instruction.fields)
          [] name = "WRITE_MEM" -> op_write_mem(cells, instruction.fields)
          [] OTHER -> [ok |-> FALSE, error |-> "UnsupportedInstructionError"]

\* Interpreter._execute
execute(cells, instruction) ==
    LET name == instruction.definition.mnemonic
    IN  CASE name = "LOAD_CONST" -> op_load_const(cells, instruction.fields)
          [] name = "READ_MEM" -> op_read_mem(cells, instruction.fields)
          [] name = "WRITE_MEM" -> op_write_mem(cells, instruction.fields)
          [] name = "NOT_MEM" -> op_not_mem(cells, instruction.fields)
          [] OTHER -> [ok |-> FALSE, error |-> "UnsupportedInstructionError"]

BudgetReached_OffByOne(done, budget) == budget.some /\ done > budget.val

\* Interpreter.run: max_steps is not None and self.steps >= max_steps
BudgetReached(done, budget) == budget.some /\ done >= budget.val

NextPc_Skip(counter) == counter + 2

\* Interpreter.run: self.pc += 1
NextPc(counter) == counter + 1

(***************************************************************************)
(* Values every variable holds while its part of the program is not used.  *)
(***************************************************************************)
None == [some |-> FALSE]
Some(k) == [some |-> TRUE, val |-> k]

EncIdle ==
    /\ enc_definition = INSTRUCTION_SET["LOAD_CONST"]
    /\ enc_values = <<>>
    /\ enc_result = [kind |-> "none"]
    /\ ext_result = [kind |-> "none"]
    /\ dec_result = [kind |-> "none"]

AsmIdle ==
    /\ ir_list = <<>>
    /\ asm_result = [kind |-> "none"]

VmIdle ==
    /\ program = <<>>
    /\ memory = <<>>
    /\ pc = 0
    /\ steps = 0
    /\ max_steps = None
    /\ phase = "load"
    /\ result = [steps |-> 0, halted |-> FALSE]
    /\ error = "none"

(***************************************************************************)
(* Specification SpecEncode: encode, extract_fields and decode_word on one *)
(* definition and one mapping of field names to integers.                  *)
(***************************************************************************)
FieldKeyPool == {"B", "C", "D", "b", "E"}

\* the integers tried for the key `name` of a mapping given to `def`
ValuesFor(def, name) ==
    LET own == {i \in 1..Len(def.fields) : def.fields[i].name = name}
        small == {IntOf(k) : k \in 0..MaxSmall}
    IN  IF own = {}
        THEN small
        ELSE small \cup {IntOf(-1)}
                   \cup UNION {{mask(def.fields[i]), PyAdd(mask(def.fields[i]), IntOf(1))}
                               : i \in own}

InitEncode ==
    /\ \E m \in DOMAIN INSTRUCTION_SET : enc_definition = INSTRUCTION_SET[m]
    /\ \E keys \in SUBSET FieldKeyPool :
       \E vB \in ValuesFor(enc_definition, "B"), vC \in ValuesFor(enc_definition, "C"),
          vD \in ValuesFor(enc_definition, "D"), vb \in ValuesFor(enc_definition, "b"),
          vE \in ValuesFor(enc_definition, "E") :
            enc_values = [name \in keys |->
                        CASE name = "B" -> vB
                          [] name = "C" -> vC
                          [] name = "D" -> vD
                          [] name = "b" -> vb
                          [] name = "E" -> vE]
    /\ enc_result = [kind |-> "none"]
    /\ ext_result = [kind |-> "none"]
    /\ dec_result = [kind |-> "none"]
    /\ AsmIdle
    /\ VmIdle

Encode ==
    /\ enc_result.kind = "none"
    /\ enc_result' = encode(enc_definition, enc_values)
    /\ UNCHANGED <<enc_definition, enc_values, ext_result, dec_result, asmVars, vmVars>>

Extract ==
    /\ enc_result.kind = "ok"
    /\ ext_result.kind = "none"
    /\ ext_result' = [kind |-> "ok", fields |-> extract_fields(enc_definition, enc_result.word)]
    /\ UNCHANGED <<enc_definition, enc_values, enc_result, dec_result, asmVars, vmVars>>

Decode ==
    /\ enc_result.kind = "ok"
    /\ dec_result.kind = "none"
    /\ dec_result' = decode_word(enc_result.word)
    /\ UNCHANGED <<enc_definition, enc_values, enc_result, ext_result, asmVars, vmVars>>

NextEncode == Encode \/ Extract \/ Decode

SpecEncode == InitEncode /\ [][NextEncode]_vars

(***************************************************************************)
(* Claims about encode, extract_fields and decode_word.                    *)
(***************************************************************************)
\* the number 2^w - 1 and the test 0 <= v <= 2^w - 1, stated on the bits
AllOnes(w) == [neg |-> FALSE, bits |-> 0..(w - 1)]
Fits(v, w) == ~v.neg /\ v.bits \subseteq 0..(w - 1)

\* the mapping names exactly the declared fields
ExactNames == DOMAIN enc_values = FieldNames(enc_definition)

\* every declared field is given a value in its range
AllInRange ==
    /\ ExactNames
    /\ \A i \in 1..Len(enc_definition.fields) :
           Fits(enc_values[enc_definition.fields[i].name], width(enc_definition.fields[i]))

\* C1 (round trip): for each of the four definitions and every assignment
\* giving each declared field a value in 0..field.mask, encode succeeds and
\* extract_fields of the encoded word is the assignment itself.
C1_RoundTrip ==
    /\ (enc_result.kind # "none" /\ AllInRange) => enc_result.kind = "ok"
    /\ (ext_result.kind = "ok" /\ AllInRange) => ext_result.fields = enc_values

C1_Witness ==
    /\ ext_result.kind = "ok"
    /\ enc_definition.mnemonic = "READ_MEM"
    /\ enc_values = [B |-> AllOnes(29), C |-> AllOnes(15), D |-> IntOf(1)]
    /\ ext_result.fields = enc_values

\* C2 (width enforcement): with the other fields in range, encode succeeds
\* when a field holds field.mask and fails with a RangeError naming that
\* field, returning no word, when it holds field.mask + 1.
C2_WidthEnforcement ==
    (enc_result.kind # "none" /\ ExactNames) =>
        \A i \in 1..Len(enc_definition.fields) :
            LET f == enc_definition.fields[i]
                othersFit ==
                    \A j \in 1..Len(enc_definition.fields) :
                        j # i => Fits(enc_values[enc_definition.fields[j].name],
                                      width(enc_definition.fields[j]))
            IN  /\ (othersFit /\ enc_values[f.name] = AllOnes(width(f)))
                       => enc_result.kind = "ok"
                /\ (othersFit /\ enc_values[f.name] = [neg |-> FALSE, bits |-> {width(f)}])
                       => /\ enc_result.kind = "error"
                          /\ enc_result.error = "RangeError"
                          /\ enc_result.fields = {f.name}
                          /\ enc_result.width = width(f)
                          /\ enc_result.value = enc_values[f.name]

C2_Witness ==
    /\ enc_definition.mnemonic = "LOAD_CONST"
    /\ enc_values = [B |-> AllOnes(17), C |-> [neg |-> FALSE, bits |-> {29}]]
    /\ enc_result.kind = "error"
    /\ enc_result.error = "RangeError"
    /\ enc_result.fields = {"C"}

\* C3 (exact field set): encode returns a word only if the mapping's names
\* are exactly the declared names; if a declared name is missing or an
\* undeclared name is present, encode fails with a SchemaError and with no
\* other kind of error.
C3_ExactFieldSet ==
    enc_result.kind # "none" =>
        /\ enc_result.kind = "ok" => ExactNames
        /\ ~ExactNames => (enc_result.kind = "error" /\ enc_result.error = "SchemaError")

\* C4 (opcode injectivity): decode_word of the word encode produced for
\* mnemonic M yields an instruction whose definition's mnemonic is M; the
\* four opcodes are pairwise distinct and no field overlaps the low 5 bits.
C4_OpcodeInjectivity ==
    /\ dec_result.kind # "none" =>
           /\ dec_result.kind = "ok"
           /\ dec_result.instruction.definition.mnemonic = enc_definition.mnemonic
           /\ dec_result.instruction.raw_value = enc_result.word
    /\ \A m1, m2 \in DOMAIN INSTRUCTION_SET :
           m1 # m2 => INSTRUCTION_SET[m1].opcode # INSTRUCTION_SET[m2].opcode
    /\ \A m \in DOMAIN INSTRUCTION_SET :
           \A i \in 1..Len(INSTRUCTION_SET[m].fields) :
               INSTRUCTION_SET[m].fields[i].start_bit >= OPCODE_BITS

C4_Witness ==
    /\ dec_result.kind = "ok"
    /\ AllInRange
    /\ enc_definition.mnemonic = "NOT_MEM"
    /\ dec_result.instruction.definition.mnemonic = "NOT_MEM"
    /\ enc_values["B"] = AllOnes(29)

(***************************************************************************)
(* Specification SpecAssemble: encode_words on a sequence of IR            *)
(* instructions, as assemble_to_file hands it the parser's output.         *)
(***************************************************************************)
InstructionIR(mnemonic, fields) == [mnemonic |-> mnemonic, fields |-> fields]

IRPool ==
    { InstructionIR("LOAD_CONST", [B |-> IntOf(1), C |-> IntOf(2)]),
      InstructionIR("load_const", [B |-> IntOf(0), C |-> IntOf(MaxSmall)]),
      InstructionIR("NOT_MEM", [B |-> IntOf(1), C |-> IntOf(0), D |-> IntOf(2)]),
      InstructionIR("jump", [B |-> IntOf(1)]),
      InstructionIR("READ_MEM", [B |-> IntOf(1), C |-> IntOf(0)]),
      InstructionIR("WRITE_MEM", [B |-> PyShl(IntOf(1), 29), C |-> IntOf(0)]),
      InstructionIR("NOT_MEM", [b |-> IntOf(1), C |-> IntOf(0), D |-> IntOf(0)]) }

InitAssemble ==
    /\ EncIdle
    /\ AsmIdle
    /\ VmIdle

AddIR ==
    /\ asm_result.kind = "none"
    /\ Len(ir_list) < MaxIR
    /\ \E ir \in IRPool : ir_list' = Append(ir_list, ir)
    /\ UNCHANGED <<asm_result, encVars, vmVars>>

EncodeWords ==
    /\ asm_result.kind = "none"
    /\ asm_result' = encode_words(ir_list)
    /\ UNCHANGED <<ir_list, encVars, vmVars>>

NextAssemble == AddIR \/ EncodeWords

SpecAssemble == InitAssemble /\ [][NextAssemble]_vars

\* What encoding the single IR instruction ir must give: the lookup's error
\* for a mnemonic outside the fixed set, else whatever encode gives.
ExpectedFor(ir) ==
    IF Upper(ir.mnemonic) \notin {"LOAD_CONST", "READ_MEM", "WRITE_MEM", "NOT_MEM"}
    THEN [kind |-> "error", error |-> "UnknownMnemonicError", mnemonic |-> ir.mnemonic]
    ELSE encode(INSTRUCTION_SET[Upper(ir.mnemonic)], ir.fields)

Failing == {i \in 1..Len(ir_list) : ExpectedFor(ir_list[i]).kind = "error"}

FirstFailing == CHOOSE i \in Failing : \A j \in Failing : i <= j

\* C8 as stated (error position): when encode_words fails on the IR
\* instruction at index i, the error delivered to the caller carries the
\* index i of the offending instruction, and no word sequence is returned.
C8_ErrorCarriesIndex ==
    (asm_result.kind # "none" /\ Failing # {}) =>
        /\ asm_result.kind = "error"
        /\ "words" \notin DOMAIN asm_result
        /\ "index" \in DOMAIN asm_result
        /\ asm_result.index = FirstFailing - 1

\* C8 as amended: when encode_words fails on the IR instruction at index i
\* (the first one that cannot be encoded), the error delivered to the caller
\* is the error raised for that instruction by the mnemonic lookup or by
\* encode, unchanged and with no instruction index attached, and no word
\* sequence is returned; with no such instruction it returns one word per
\* instruction.
C8_ErrorPropagatedUnchanged ==
    asm_result.kind # "none" =>
        IF Failing # {}
        THEN /\ asm_result = ExpectedFor(ir_list[FirstFailing])
             /\ "words" \notin DOMAIN asm_result
             /\ "index" \notin DOMAIN asm_result
        ELSE /\ asm_result.kind = "ok"
             /\ Len(asm_result.words) = Len(ir_list)
             /\ \A i \in 1..Len(ir_list) :
                    asm_result.words[i] = ExpectedFor(ir_list[i]).word

C8_Witness ==
    /\ Len(ir_list) = 3
    /\ ir_list[1].mnemonic = "load_const"
    /\ ir_list[2].mnemonic = "WRITE_MEM"
    /\ ir_list[3].mnemonic = "jump"
    /\ asm_result.kind = "error"
    /\ asm_result.error = "RangeError"

(***************************************************************************)
(* Specification Spec: load_program decodes the words of a binary, the     *)
(* Interpreter is constructed on the program with a fresh Memory, and run  *)
(* executes it under a budget.  One Step is one iteration of run's loop.   *)
(***************************************************************************)
Word2(mnemonic, b, c) ==
    encode(INSTRUCTION_SET[mnemonic], [B |-> IntOf(b), C |-> IntOf(c)]).word

Word3(mnemonic, b, c, d) ==
    encode(INSTRUCTION_SET[mnemonic], [B |-> IntOf(b), C |-> IntOf(c), D |-> IntOf(d)]).word

\* the words a binary may hold: encoded instructions, a word with every
\* bit above the opcode set, and a word whose opcode is in no definition
WordPool ==
    {Word2("LOAD_CONST", b, c) : b \in {100, 42}, c \in {10, 103}}
    \cup {Word3("READ_MEM", 10, 3, d) : d \in {20, 10}}
    \cup {Word3("NOT_MEM", 10, 3, d) : d \in {20, 10, 103}}
    \cup {Word2("WRITE_MEM", 20, 10)}
    \cup {[neg |-> FALSE, bits |-> 3..111], IntOf(0)}

Budgets == {None} \cup {Some(k) : k \in (-1)..MaxProgram}

Init ==
    /\ EncIdle
    /\ AsmIdle
    /\ VmIdle

\* load_program: one iteration of its loop
LoadWord ==
    /\ phase = "load"
    /\ Len(program) < MaxProgram
    /\ \E word \in WordPool :
         LET got == decode_word(word)
         IN  IF got.kind = "ok"
             THEN /\ program' = Append(program, got.instruction)
                  /\ UNCHANGED <<phase, error>>
             ELSE /\ phase' = "load_error"
                  /\ error' = got.error
                  /\ UNCHANGED program
    /\ UNCHANGED <<memory, pc, steps, max_steps, result, encVars, asmVars>>

\* interpret: Interpreter(program) and the call of run(max_steps)
StartRun ==
    /\ phase = "load"
    /\ \E budget \in Budgets : max_steps' = budget
    /\ phase' = "running"
    /\ memory' = <<>>
    /\ pc' = 0
    /\ steps' = 0
    /\ UNCHANGED <<program, result, error, encVars, asmVars>>

\* Interpreter.run: one iteration of the loop that executes an instruction
Step ==
    /\ phase = "running"
    /\ pc < Len(program)
    /\ ~BudgetReached(steps, max_steps)
    /\ LET done == execute(memory, program[pc + 1])
       IN  IF done.ok
           THEN /\ memory' = done.cells
                /\ pc' = NextPc(pc)
                /\ steps' = steps + 1
                /\ UNCHANGED <<phase, error>>
           ELSE /\ phase' = "run_error"
                /\ error' = done.error
                /\ UNCHANGED <<memory, pc, steps>>
    /\ UNCHANGED <<program, max_steps, result, encVars, asmVars>>

\* Interpreter.run: the budget is reached before the program's end
ReturnSuspended ==
    /\ phase = "running"
    /\ pc < Len(program)
    /\ BudgetReached(steps, max_steps)
    /\ result' = [steps |-> steps, halted |-> FALSE]
    /\ phase' = "returned"
    /\ UNCHANGED <<program, memory, pc, steps, max_steps, error, encVars, asmVars>>

\* Interpreter.run: the loop ends with pc at the program's end
ReturnHalted ==
    /\ phase = "running"
    /\ ~(pc < Len(program))
    /\ result' = [steps |-> steps, halted |-> TRUE]
    /\ phase' = "returned"
    /\ UNCHANGED <<program, memory, pc, steps, max_steps, error, encVars, asmVars>>

Next == LoadWord \/ StartRun \/ Step \/ ReturnSuspended \/ ReturnHalted

Spec == Init /\ [][Next]_vars

(***************************************************************************)
(* Claims about the interpreter.                                           *)
(***************************************************************************)
\* memory[a]: a cell never written reads as zero
Cell(cells, a) == IF a \in DOMAIN cells THEN cells[a] ELSE IntOf(0)

\* this step executes the instruction at pc, whose mnemonic is m
Executes(m) ==
    /\ phase = "running"
    /\ steps' = steps + 1
    /\ program[pc + 1].definition.mnemonic = m

C6_NotMemComplement ==
    [][Executes("NOT_MEM") =>
        LET f == program[pc + 1].fields
            source == PyAdd(Cell(memory, f["B"]), f["C"])
        IN  /\ Cell(memory', f["D"]) =
                   [neg |-> FALSE,
                    bits |-> (0..(WORD_SIZE - 1)) \ Cell(memory, source).bits]
            /\ ~Cell(memory, source).neg
            /\ \A a \in (DOMAIN memory \cup DOMAIN memory') \ {f["D"]} :
                   Cell(memory', a) = Cell(memory, a)
            /\ ( /\ f = [B |-> IntOf(10), C |-> IntOf(3), D |-> IntOf(20)]
                 /\ Cell(memory, IntOf(10)) = IntOf(100)
                 /\ Cell(memory, IntOf(103)) = IntOf(42) )
               => Cell(memory', IntOf(20)) =
                      [neg |-> FALSE, bits |-> (0..63) \ {1, 3, 5}]
    ]_vars

C6_Witness ==
    /\ phase = "running"
    /\ pc = 3
    /\ program[3].definition.mnemonic = "NOT_MEM"
    /\ program[3].fields = [B |-> IntOf(10), C |-> IntOf(3), D |-> IntOf(20)]
    /\ Cell(memory, IntOf(10)) = IntOf(100)
    /\ Cell(memory, IntOf(103)) = IntOf(42)
    /\ Cell(memory, IntOf(20)) = [neg |-> FALSE, bits |-> (0..63) \ {1, 3, 5}]

\* the Memory after the first k instructions of the program ran on a fresh one
RECURSIVE CellsAfter(_)
CellsAfter(k) ==
    IF k = 0 THEN <<>> ELSE execute(CellsAfter(k - 1), program[k]).cells

\* C7 (budget suspension): on a fresh engine and a program of n supported
\* instructions, run(max_steps=k) with 0 <= k < n executes exactly the first
\* k instructions and returns {steps: k, halted: false}; with no budget or
\* k >= n it executes all n and returns {steps: n, halted: true}; halted is
\* reported only with pc at the program's end, and the number of executed
\* instructions never exceeds a budget k >= 0.
C7_BudgetSuspension ==
    LET n == Len(program)
        k == max_steps.val
    IN  /\ (phase \in {"running", "returned"} /\ max_steps.some /\ k >= 0)
               => steps <= k
        /\ phase = "returned" =>
             /\ (max_steps.some /\ 0 <= k /\ k < n)
                    => /\ result = [steps |-> k, halted |-> FALSE]
                       /\ pc = k
                       /\ memory = CellsAfter(k)
             /\ (~max_steps.some \/ k >= n)
                    => /\ result = [steps |-> n, halted |-> TRUE]
                       /\ memory = CellsAfter(n)
             /\ result.halted => pc = n

C7_Witness ==
    /\ phase = "returned"
    /\ Len(program) = 3
    /\ max_steps = Some(2)
    /\ result = [steps |-> 2, halted |-> FALSE]
    /\ DOMAIN memory = {IntOf(10), IntOf(103)}

\* C9: while run drives a fresh engine, pc = steps and 0 <= pc <= len(program);
\* each executed instruction increases pc and steps by exactly 1 and nothing
\* else changes them, so instructions run in program order, each at most once.
C9_PcEqualsSteps ==
    /\ [](pc = steps /\ 0 <= pc /\ pc <= Len(program))
    /\ [][(pc' # pc \/ steps' # steps \/ (phase = "running" /\ memory' # memory))
             => /\ phase = "running"
                /\ phase' = "running"
                /\ pc' = pc + 1
                /\ steps' = steps + 1
                /\ program' = program]_vars

C9_Witness ==
    /\ phase = "running"
    /\ pc = 3
    /\ steps = 3
    /\ Len(program) = 3

\* every address is non-negative and every stored value is within the word
MemoryWellFormed ==
    \A a \in DOMAIN memory :
        /\ ~a.neg
        /\ ~memory[a].neg
        /\ memory[a].bits \subseteq 0..(WORD_SIZE - 1)

\* every field of every decoded instruction is within its width
ProgramWellFormed ==
    \A i \in 1..Len(program) :
        /\ DOMAIN program[i].fields = FieldNames(program[i].definition)
        /\ \A j \in 1..Len(program[i].definition.fields) :
               LET f == program[i].definition.fields[j]
               IN  /\ ~program[i].fields[f.name].neg
                   /\ program[i].fields[f.name].bits \subseteq 0..(f.end_bit - f.start_bit)

\* C10: a program whose instructions all come from decode_word runs on a
\* fresh Memory without any error: every decoded field and every stored
\* value is non-negative and in range, no InvalidAddressError and no
\* UnsupportedInstructionError occurs, and without a budget the run always
\* ends Halted with steps = len(program): while it runs the instruction at
\* pc executes without raising, and each step of the run executes that
\* instruction, moving pc one closer to len(program), or returns Halted.
C10_ErrorFreeExecution ==
    /\ [](/\ phase # "run_error"
          /\ ProgramWellFormed
          /\ MemoryWellFormed
          /\ (phase = "running" /\ pc < Len(program))
                 => execute(memory, program[pc + 1]).ok
          /\ (phase = "returned" /\ ~max_steps.some)
                 => result = [steps |-> Len(program), halted |-> TRUE])
    /\ [][(phase = "running" /\ ~max_steps.some) =>
             \/ /\ phase' = "running"
                /\ pc' = pc + 1
                /\ pc' <= Len(program)
             \/ /\ phase' = "returned"
                /\ result'.halted
                /\ result'.steps = Len(program)]_vars

C10_Witness ==
    /\ phase = "returned"
    /\ ~max_steps.some
    /\ Len(program) = 3
    /\ result = [steps |-> 3, halted |-> TRUE]
    /\ program[1].raw_value = [neg |-> FALSE, bits |-> 3..111]
    /\ program[2].raw_value = [neg |-> FALSE, bits |-> 3..111]
    /\ program[3].definition.mnemonic = "READ_MEM"
    /\ Cell(memory, AllOnes(29)) = AllOnes(64)

=============================================================================
